---- MODULE Spec2Model ----
(***************************************************************************)
(* runme.py of urbs: the three scenario rules (scenario_base,              *)
(* scenario_nuclear_free, scenario_co2_2030), run_scenario's pipeline and  *)
(* the __main__ batch loop.                                                *)
(*                                                                         *)
(* A dataset is a function from table names to tables.  A table is a       *)
(* record [rows, source_row, source_col]: rows maps each row key to a      *)
(* function from column names to values; the two flags say whether the     *)
(* sheet still carries the 'Source' annotation row and column.             *)
(* Capacities are held in tenths, so that *= 1.5 and *= 1.2 are exact on   *)
(* whole-number baselines; float('inf') is the sentinel Inf.               *)
(***************************************************************************)
EXTENDS Integers, Sequences, FiniteSets, TLC

VARIABLES
    baseline,    \* content of the input spreadsheet on disk (what read_excel parses)
    scenarios,   \* the list `scenarios` of __main__: a sequence of scenario names
    idx,         \* position of the for loop of __main__ in `scenarios`
    pc,          \* next statement of __main__ / run_scenario
    data,        \* run_scenario's local `data` (the object last bound to it)
    steps,       \* the calls run_scenario has made in the current pass
    passes,      \* one record per pass that returned
    result,      \* solver status returned by optim.solve in the current pass
    written,     \* the writes made below the result directory: [path, by, kind]
    error        \* the exception that left __main__, if any

vars == <<baseline, scenarios, idx, pc, data, steps, passes, result, written, error>>

----------------------------------------------------------------------------
(* Bounds of the model *)

\* rows of 'process' plus 'transmission' in a dataset handed to a rule
MaxRows == 2
\* rows of 'process' in the input file of a batch run
MaxFileRows == 1
\* scenarios selected for a batch
MaxBatch == 2

----------------------------------------------------------------------------
(* Values *)

\* float('inf'): larger than any finite capacity the model reaches
Inf == 1000000000

\* the CO2 limit written by scenario_co2_2030
CO2Limit2030 == 183000000

\* the value pandas gives the other cells of a row it appends
NaN == "NaN"

\* x *= num/10 on a float cell holding x tenths (inf * c = inf)
Times(x, num) == IF x = Inf THEN Inf ELSE (x * num) \div 10

TableNames == {"process", "transmission", "storage", "global_prop"}

ProcessCols == {"inst-cap", "cap-lo", "cap-up"}

GlobalCols == {"value", "description"}

Site == "SiteX"

ProcessNames == {"Nuclear plant", "Wind plant", "Solar plant", "CC plant",
                 "Slack powerplant", "Biomass plant", "Hydro plant"}

TransmissionNames == {"hvac", "DC line"}

ProcessKeys == {<<Site, p>> : p \in ProcessNames}

TransmissionKeys == {<<Site, "SiteY", t>> : t \in TransmissionNames}

----------------------------------------------------------------------------
(* pandas operations used by the rules *)

\* pro.index.get_level_values(level) == label, as the set of keys it selects
LevelEquals(rows, level, label) == {k \in DOMAIN rows : k[level] = label}

\* df.loc[mask, col] = val
LocAssign(rows, mask, col, val) ==
    [k \in DOMAIN rows |->
        IF k \in mask THEN [rows[k] EXCEPT ![col] = val] ELSE rows[k]]

\* df.loc[mask, col] *= num/10
LocTimes(rows, mask, col, num) ==
    [k \in DOMAIN rows |->
        IF k \in mask THEN [rows[k] EXCEPT ![col] = Times(rows[k][col], num)]
        ELSE rows[k]]

\* df.loc[label, col] = val that leaves a frame without the label alone
LocAssignLabelExisting(rows, cols, label, col, val) ==
    IF label \in DOMAIN rows
    THEN [rows EXCEPT ![label] = [rows[label] EXCEPT ![col] = val]]
    ELSE rows

\* df.loc[label, col] = val with a scalar row label: pandas sets the cell, and
\* appends the row (other cells NaN) when the label is not in the index
LocAssignLabel(rows, cols, label, col, val) ==
    IF label \in DOMAIN rows
    THEN [rows EXCEPT ![label] = [rows[label] EXCEPT ![col] = val]]
    ELSE [k \in DOMAIN rows \cup {label} |->
            IF k = label THEN [c \in cols |-> IF c = col THEN val ELSE NaN]
            ELSE rows[k]]

\* data[name] with its rows replaced (the rules edit the frames in place)
WithRows(d, name, rows) == [d EXCEPT ![name] = [d[name] EXCEPT !.rows = rows]]

----------------------------------------------------------------------------
(* The scenario rules *)

scenario_base(d) == d

\* ShutDownNuclear without the cap-lo assignment
ShutDownNuclearKeepsLo(pro) ==
    LET nuclear_plants == LevelEquals(pro, 2, "Nuclear plant")
        a == LocAssign(pro, nuclear_plants, "inst-cap", 0)
    IN  LocAssign(a, nuclear_plants, "cap-up", 0)

\* runme.py 18-22 / 56-60
ShutDownNuclear(pro) ==
    LET nuclear_plants == LevelEquals(pro, 2, "Nuclear plant")
        a == LocAssign(pro, nuclear_plants, "inst-cap", 0)
        b == LocAssign(a, nuclear_plants, "cap-lo", 0)
    IN  LocAssign(b, nuclear_plants, "cap-up", 0)

\* runme.py 25-28 / 76-79
AllowRenewables(pro) ==
    LET renewables == LevelEquals(pro, 2, "Wind plant")
                      \cup LevelEquals(pro, 2, "Solar plant")
    IN  LocAssign(pro, renewables, "cap-up", Inf)

\* AllowCC with the factor 0.5 in place of 1.5
AllowCCHalved(pro) == LocTimes(pro, LevelEquals(pro, 2, "CC plant"), "cap-up", 5)

\* runme.py 31-32 / 63-64
AllowCC(pro) == LocTimes(pro, LevelEquals(pro, 2, "CC plant"), "cap-up", 15)

\* runme.py 34-37 / 66-69
ShutDownSlack(pro) ==
    LET slack == LevelEquals(pro, 2, "Slack powerplant")
        a == LocAssign(pro, slack, "inst-cap", 0)
        b == LocAssign(a, slack, "cap-lo", 0)
    IN  LocAssign(b, slack, "cap-up", 0)

\* runme.py 40-41 / 72-73
AllowBio(pro) == LocTimes(pro, LevelEquals(pro, 2, "Biomass plant"), "cap-up", 12)

\* runme.py 44-46 / 82-84
AllowTransmission(tra) ==
    LocAssign(tra, LevelEquals(tra, 3, "hvac"), "cap-up", Inf)

\* scenario_nuclear_free with the CO2 limit edit of scenario_co2_2030 pasted in
scenario_nuclear_free_with_limit(d) ==
    LET global_prop == LocAssignLabel(d["global_prop"].rows, GlobalCols,
                                      "CO2 limit", "value", CO2Limit2030)
        pro == AllowBio(ShutDownSlack(AllowCC(AllowRenewables(
                   ShutDownNuclear(d["process"].rows)))))
        tra == AllowTransmission(d["transmission"].rows)
    IN  WithRows(WithRows(WithRows(d, "global_prop", global_prop),
                          "process", pro), "transmission", tra)

scenario_nuclear_free(d) ==
    LET pro == AllowBio(ShutDownSlack(AllowCC(AllowRenewables(
                   ShutDownNuclear(d["process"].rows)))))
        tra == AllowTransmission(d["transmission"].rows)
    IN  WithRows(WithRows(d, "process", pro), "transmission", tra)

\* scenario_co2_2030 without the biomass edit
scenario_co2_2030_without_bio(d) ==
    LET global_prop == LocAssignLabel(d["global_prop"].rows, GlobalCols,
                                      "CO2 limit", "value", CO2Limit2030)
        pro == AllowRenewables(ShutDownSlack(AllowCC(
                   ShutDownNuclear(d["process"].rows))))
        tra == AllowTransmission(d["transmission"].rows)
    IN  WithRows(WithRows(WithRows(d, "global_prop", global_prop),
                          "process", pro), "transmission", tra)

scenario_co2_2030(d) ==
    LET global_prop == LocAssignLabel(d["global_prop"].rows, GlobalCols,
                                      "CO2 limit", "value", CO2Limit2030)
        pro == AllowRenewables(AllowBio(ShutDownSlack(AllowCC(
                   ShutDownNuclear(d["process"].rows)))))
        tra == AllowTransmission(d["transmission"].rows)
    IN  WithRows(WithRows(WithRows(d, "global_prop", global_prop),
                          "process", pro), "transmission", tra)

\* scenario.__name__ of the functions a batch may select; 'germany' stands for
\* a user-defined do-nothing scenario function of that name
ScenarioNames == {"scenario_base", "scenario_nuclear_free",
                  "scenario_co2_2030", "germany"}

\* scenario(data) for the function named sce
ApplyScenario(sce, d) ==
    CASE sce = "scenario_nuclear_free" -> scenario_nuclear_free(d)
      [] sce = "scenario_co2_2030" -> scenario_co2_2030(d)
      [] OTHER -> scenario_base(d)

----------------------------------------------------------------------------
(* Datasets the model draws its inputs from *)

ProRow(lo, inst, up) ==
    [c \in ProcessCols |->
        IF c = "cap-lo" THEN lo ELSE IF c = "inst-cap" THEN inst ELSE up]

\* the finite baseline capacities: 0 and 1 unit, in tenths
FiniteCaps == {0, 10}

\* capacity rows: cap-lo and inst-cap finite, cap-up finite or unbounded
CapRows == {ProRow(lo, inst, up) : lo \in FiniteCaps, inst \in FiniteCaps,
                                   up \in FiniteCaps \cup {Inf}}

\* the tables with at most n rows, keyed within keys, valued in rowvals
RowSets(keys, rowvals, n) ==
    UNION {[K -> rowvals] : K \in {S \in SUBSET keys : Cardinality(S) <= n}}

Table(rows, src) == [rows |-> rows, source_row |-> src, source_col |-> src]

GlobalRow(v, descr) == [c \in GlobalCols |-> IF c = "value" THEN v ELSE descr]

\* 'global_prop' without a CO2 limit, with the limit of the rule, with another
GlobalTables ==
    LET cost == [k \in {"Cost limit"} |-> GlobalRow(Inf, "EUR")]
    IN  {cost} \cup
        {[k \in {"Cost limit", "CO2 limit"} |->
             IF k = "CO2 limit" THEN GlobalRow(v, "t CO2") ELSE cost[k]]
         : v \in {CO2Limit2030, 2 * CO2Limit2030}}

StorageRows == [k \in {<<Site, "Pump storage">>} |-> ProRow(0, 10, 10)]

Dataset(pro, tra, glo, src) ==
    [t \in TableNames |->
        CASE t = "process" -> Table(pro, src)
          [] t = "transmission" -> Table(tra, src)
          [] t = "global_prop" -> Table(glo, src)
          [] OTHER -> Table(StorageRows, src)]

\* datasets handed to a rule: already stripped, at most MaxRows capacity rows
RuleDatasets ==
    LET pros == RowSets(ProcessKeys, CapRows, MaxRows)
        tras == RowSets(TransmissionKeys, CapRows, MaxRows)
        fits == {pt \in pros \X tras :
                    Cardinality(DOMAIN pt[1]) + Cardinality(DOMAIN pt[2])
                    <= MaxRows}
    IN  {Dataset(pt[1], pt[2], glo, FALSE) : pt \in fits, glo \in GlobalTables}

\* input files of a batch: a few process rows, ordered or inverted bounds,
\* one hvac line, with or without the Source annotations
FileRows == {ProRow(0, 10, 10), ProRow(10, 10, 0)}

FileDatasets ==
    {Dataset(pro,
             [k \in {<<Site, "SiteY", "hvac">>} |-> ProRow(0, 10, 10)],
             glo, src) :
        pro \in RowSets({<<Site, "Nuclear plant">>, <<Site, "Hydro plant">>},
                        FileRows, MaxFileRows),
        glo \in {g \in GlobalTables : "CO2 limit" \in DOMAIN g
                                      /\ g["CO2 limit"]["value"] # CO2Limit2030},
        src \in BOOLEAN}

\* the selections of scenarios: pairwise distinct names, in any order
RECURSIVE Selections(_)
Selections(n) ==
    IF n = 0 THEN {<< >>}
    ELSE LET shorter == Selections(n - 1)
         IN  shorter \cup
             {Append(s, sce) : s \in {t \in shorter : Len(t) = n - 1},
                               sce \in ScenarioNames}

Distinct(s) == \A i, j \in 1..Len(s) : i # j => s[i] # s[j]

Batches == {s \in Selections(MaxBatch) : Len(s) >= 1 /\ Distinct(s)}

----------------------------------------------------------------------------
(* __main__ and run_scenario *)

InputStem == "germany"

InputExt == ".xlsx"

\* input_file = 'germany.xlsx'
input_file == InputStem \o InputExt

\* os.path.splitext(input_file)[0]
result_name == InputStem

\* datetime.now().strftime('%Y%m%dT%H%M'), one value per batch
Now == "20150101T0000"

\* os.path.join(a, b)
PathJoin(a, b) == a \o "/" \o b

\* prepare_result_directory(result_name)
result_dir == PathJoin("result", result_name \o "-" \o Now)

\* the four paths run_scenario derives from scenario.__name__
LogPath(sce) == PathJoin(result_dir, sce \o ".log")

SnapshotPath(sce) == PathJoin(result_dir, sce \o ".h5")

ReportPath(sce) == PathJoin(result_dir, sce \o ".xlsx")

PlotPath(sce) == PathJoin(result_dir, sce)

Write(path, by, kind) == [path |-> path, by |-> by, kind |-> kind]

\* shutil.copyfile(input_file, ...) and shutil.copy(__file__, result_dir)
MainCopies == {Write(PathJoin(result_dir, input_file), "main", "input"),
               Write(PathJoin(result_dir, "runme.py"), "main", "script")}

\* the statements of run_scenario, in program order
Pipeline == <<"read_excel", "drop_source", "scenario", "validate_input",
              "create_model", "solve", "save", "report", "result_figures">>

PositionOf(stmt) == CHOOSE i \in 1..Len(Pipeline) : Pipeline[i] = stmt

\* After with validate_input left out
AfterSkippingValidation(stmt) ==
    IF stmt = "scenario" THEN "create_model"
    ELSE IF PositionOf(stmt) = Len(Pipeline) THEN "return"
    ELSE Pipeline[PositionOf(stmt) + 1]

\* the statement that follows stmt in run_scenario ("return" after the plots)
After(stmt) ==
    IF PositionOf(stmt) = Len(Pipeline) THEN "return"
    ELSE Pipeline[PositionOf(stmt) + 1]

\* no dataset bound yet
NoData == [t \in {} |-> 0]

\* read_excel that hands back the dataset of the previous pass once one exists
read_excel_shared(file) == IF DOMAIN data = {} THEN file ELSE data

\* urbs.read_excel(input_file): a fresh dataset parsed from the file
read_excel(file) == file

\* data[key].drop('Source', axis=0 / axis=1, inplace=True, errors='ignore')
DropSource(d) ==
    [key \in DOMAIN d |->
        [d[key] EXCEPT !.source_row = FALSE, !.source_col = FALSE]]

\* cap-lo <= inst-cap <= cap-up on every row (cap-up may be Inf)
BoundsOrdered(rows) ==
    \A k \in DOMAIN rows :
        /\ rows[k]["cap-lo"] <= rows[k]["inst-cap"]
        /\ rows[k]["inst-cap"] <= rows[k]["cap-up"]

\* urbs.validate_input(data) returns (TRUE) or raises (FALSE)
validate_input(d) ==
    BoundsOrdered(d["process"].rows) /\ BoundsOrdered(d["transmission"].rows)

\* the statuses optim.solve may return
SolverStatuses == {"optimal", "infeasible"}

\* a solve whose status is checked: anything but optimal raises
SolveChecksStatus(status) == IF status = "optimal" THEN "save" ELSE "raised"

\* result = optim.solve(...) is bound and never read: the next statement
SolveContinues(status) == After("solve")

NoError == [stmt |-> "none", sce |-> "none"]

sce == scenarios[idx]

\* an exception caught around run_scenario: recorded, next scenario taken
PropagateCaught(stmt) ==
    /\ pc' = "for"
    /\ idx' = idx + 1
    /\ error' = [stmt |-> stmt, sce |-> scenarios[idx]]
    /\ UNCHANGED <<baseline, scenarios, data, steps, passes, result, written>>

\* an exception raised by stmt: neither run_scenario nor the for loop catches
\* it, so it leaves __main__
Propagate(stmt) ==
    /\ pc' = "raised"
    /\ error' = [stmt |-> stmt, sce |-> sce]
    /\ UNCHANGED <<baseline, scenarios, idx, data, steps, passes, result, written>>

\* run_scenario moves on from the statement at pc
Advance == steps' = Append(steps, pc) /\ pc' = After(pc)

PrepareResultDirectory ==
    /\ pc = "main"
    /\ written' = MainCopies
    /\ pc' = "for"
    /\ UNCHANGED <<baseline, scenarios, idx, data, steps, passes, result, error>>

ForNext ==
    /\ pc = "for"
    /\ idx <= Len(scenarios)
    /\ pc' = Pipeline[1]
    /\ steps' = << >>
    /\ result' = "none"
    /\ UNCHANGED <<baseline, scenarios, idx, data, passes, written, error>>

ForEnd ==
    /\ pc = "for"
    /\ idx > Len(scenarios)
    /\ pc' = "exit"
    /\ UNCHANGED <<baseline, scenarios, idx, data, steps, passes, result, written, error>>

ReadExcel ==
    /\ pc = "read_excel"
    /\ \/ /\ data' = read_excel(baseline)
          /\ Advance
          /\ UNCHANGED <<baseline, scenarios, idx, passes, result, written, error>>
       \/ Propagate("read_excel")

StripSource ==
    /\ pc = "drop_source"
    /\ data' = DropSource(data)
    /\ Advance
    /\ UNCHANGED <<baseline, scenarios, idx, passes, result, written, error>>

Scenario ==
    /\ pc = "scenario"
    /\ data' = ApplyScenario(sce, data)
    /\ Advance
    /\ UNCHANGED <<baseline, scenarios, idx, passes, result, written, error>>

ValidateInput ==
    /\ pc = "validate_input"
    /\ IF validate_input(data)
       THEN /\ Advance
            /\ UNCHANGED <<baseline, scenarios, idx, data, passes, result, written, error>>
       ELSE Propagate("validate_input")

CreateModel ==
    /\ pc = "create_model"
    /\ \/ /\ Advance
          /\ UNCHANGED <<baseline, scenarios, idx, data, passes, result, written, error>>
       \/ Propagate("create_model")

Solve ==
    /\ pc = "solve"
    /\ \/ \E status \in SolverStatuses :
             /\ result' = status
             /\ written' = written \cup {Write(LogPath(sce), sce, "log")}
             /\ steps' = Append(steps, pc)
             /\ pc' = SolveContinues(status)
             /\ UNCHANGED <<baseline, scenarios, idx, data, passes, error>>
       \/ Propagate("solve")

Save ==
    /\ pc = "save"
    /\ \/ /\ written' = written \cup {Write(SnapshotPath(sce), sce, "snapshot")}
          /\ Advance
          /\ UNCHANGED <<baseline, scenarios, idx, data, passes, result, error>>
       \/ Propagate("save")

Report ==
    /\ pc = "report"
    /\ \/ /\ written' = written \cup {Write(ReportPath(sce), sce, "report")}
          /\ Advance
          /\ UNCHANGED <<baseline, scenarios, idx, data, passes, result, error>>
       \/ Propagate("report")

ResultFigures ==
    /\ pc = "result_figures"
    /\ \/ /\ written' = written \cup {Write(PlotPath(sce), sce, "plots")}
          /\ Advance
          /\ UNCHANGED <<baseline, scenarios, idx, data, passes, result, error>>
       \/ Propagate("result_figures")

\* return prob, and the for loop takes the next scenario
Return ==
    /\ pc = "return"
    /\ passes' = Append(passes, [sce |-> sce, steps |-> steps, result |-> result])
    /\ idx' = idx + 1
    /\ pc' = "for"
    /\ UNCHANGED <<baseline, scenarios, data, steps, result, written, error>>

Init ==
    /\ baseline \in FileDatasets
    /\ scenarios \in Batches
    /\ idx = 1
    /\ pc = "main"
    /\ data = NoData
    /\ steps = << >>
    /\ passes = << >>
    /\ result = "none"
    /\ written = {}
    /\ error = NoError

Next ==
    \/ PrepareResultDirectory
    \/ ForNext
    \/ ForEnd
    \/ ReadExcel
    \/ StripSource
    \/ Scenario
    \/ ValidateInput
    \/ CreateModel
    \/ Solve
    \/ Save
    \/ Report
    \/ ResultFigures
    \/ Return

Spec == Init /\ [][Next]_vars

\* one application of one rule to one stripped dataset
RuleInit ==
    /\ baseline \in RuleDatasets
    /\ scenarios \in {<<s>> : s \in ScenarioNames \ {"germany"}}
    /\ idx = 1
    /\ pc = "scenario"
    /\ data = baseline
    /\ steps = <<"read_excel", "drop_source">>
    /\ passes = << >>
    /\ result = "none"
    /\ written = MainCopies
    /\ error = NoError

RuleNext == Scenario

RuleSpec == RuleInit /\ [][RuleNext]_vars

----------------------------------------------------------------------------
(* Properties, batch run (Spec) *)

Artifacts(name) ==
    {Write(LogPath(name), name, "log"), Write(SnapshotPath(name), name, "snapshot"),
     Write(ReportPath(name), name, "report"), Write(PlotPath(name), name, "plots")}

StrippedBaseline == [t \in DOMAIN baseline |-> Table(baseline[t].rows, FALSE)]

\* C2: whenever a rule is about to be applied, in any pass of any batch, the
\* dataset it receives is the input file's dataset with the Source annotations
\* removed: no edit of an earlier scenario's rule is in it.
C2_RuleInputIsBaseline == pc = "scenario" => data = StrippedBaseline

C2_Witness ==
    /\ pc = "scenario"
    /\ idx = 2
    /\ ApplyScenario(scenarios[1], StrippedBaseline) # StrippedBaseline
    /\ data = StrippedBaseline

ClaimedOrder == <<"read_excel", "drop_source", "scenario", "validate_input",
                  "create_model", "solve", "save", "report", "result_figures">>

IsPrefix(s, t) == Len(s) <= Len(t) /\ s = SubSeq(t, 1, Len(s))

\* C3: the calls of a pass are always an initial part of load, strip Source,
\* rule, validate, build, solve, save, report, plots (so none is repeated or
\* out of order, and Source is stripped once, before rule and validation), and
\* a pass that returned made all nine.
C3_StrictOrder ==
    /\ IsPrefix(steps, ClaimedOrder)
    /\ pc = "return" => steps = ClaimedOrder
    /\ \A i \in 1..Len(passes) : passes[i].steps = ClaimedOrder

C3_Witness ==
    /\ pc = "exit"
    /\ Len(passes) = Len(scenarios)
    /\ Len(passes) >= 2
    /\ steps = ClaimedOrder

\* C4 (as claimed): a pass whose solver status is not optimal goes to Failed:
\* it never reaches save, report, plots or the return.
C4_NonOptimalFails ==
    /\ pc \in {"save", "report", "result_figures", "return"} => result = "optimal"
    /\ \A i \in 1..Len(passes) : passes[i].result = "optimal"

\* C4 (amended): the status solve returns is not inspected: whatever it is, the
\* log is kept and the next statement is the snapshot save; a pass that
\* returned has written log, snapshot, report and plots whatever its status.
C4_StatusIgnored ==
    [][/\ (pc = "solve" /\ result' # "none") =>
            /\ pc' = "save"
            /\ Write(LogPath(scenarios[idx]), scenarios[idx], "log") \in written'
       /\ \A i \in 1..Len(passes') :
            Artifacts(passes'[i].sce) \subseteq written']_vars

C4_Witness ==
    \E i \in 1..Len(passes) :
        /\ passes[i].result = "infeasible"
        /\ Artifacts(passes[i].sce) \subseteq written

----------------------------------------------------------------------------
(* Properties, one rule applied to one dataset (RuleSpec) *)

Applied(name) == pc = "validate_input" /\ scenarios[1] = name

Pro(d) == d["process"].rows

Tra(d) == d["transmission"].rows

Glo(d) == d["global_prop"].rows

Named(rows, level, names) == {k \in DOMAIN rows : k[level] \in names}

\* C5: after scenario_nuclear_free every 'Nuclear plant' row has inst-cap,
\* cap-lo and cap-up 0 and every 'Wind plant' or 'Solar plant' row has cap-up
\* unbounded, whatever the baseline held.
C5_NuclearFree ==
    Applied("scenario_nuclear_free") =>
        /\ DOMAIN Pro(data) = DOMAIN Pro(baseline)
        /\ \A k \in Named(Pro(data), 2, {"Nuclear plant"}) :
              \A c \in ProcessCols : Pro(data)[k][c] = 0
        /\ \A k \in Named(Pro(data), 2, {"Wind plant", "Solar plant"}) :
              Pro(data)[k]["cap-up"] = Inf

C5_Witness ==
    /\ Applied("scenario_nuclear_free")
    /\ \E k \in Named(Pro(baseline), 2, {"Nuclear plant"}) :
          \A c \in ProcessCols : Pro(baseline)[k][c] = 10
    /\ \E k \in Named(Pro(baseline), 2, {"Wind plant"}) :
          Pro(baseline)[k]["cap-up"] = 10

\* the tables each rule refers to
Referenced(name) ==
    CASE name = "scenario_nuclear_free" -> {"process", "transmission"}
      [] name = "scenario_co2_2030" -> {"global_prop", "process", "transmission"}
      [] OTHER -> {}

\* C6: a rule leaves the set of tables as it was and every table it does not
\* refer to equal to the baseline's.
C6_UntouchedTables ==
    pc = "validate_input" =>
        /\ DOMAIN data = DOMAIN baseline
        /\ \A t \in DOMAIN baseline \ Referenced(scenarios[1]) :
              data[t] = baseline[t]

C6_Witness ==
    /\ Applied("scenario_nuclear_free")
    /\ Pro(data) # Pro(baseline)
    /\ Tra(data) # Tra(baseline)
    /\ Glo(data) = Glo(baseline)
    /\ "CO2 limit" \in DOMAIN Glo(baseline)

ProcessTargets == {"Nuclear plant", "Wind plant", "Solar plant", "CC plant",
                   "Slack powerplant", "Biomass plant"}

\* the edits through a boolean mask change nothing where the mask is empty
MaskEditsNoOp ==
    LET pro == Pro(baseline)
        tra == Tra(baseline)
    IN  /\ Named(pro, 2, {"Nuclear plant"}) = {} => ShutDownNuclear(pro) = pro
        /\ Named(pro, 2, {"Wind plant", "Solar plant"}) = {}
              => AllowRenewables(pro) = pro
        /\ Named(pro, 2, {"CC plant"}) = {} => AllowCC(pro) = pro
        /\ Named(pro, 2, {"Slack powerplant"}) = {} => ShutDownSlack(pro) = pro
        /\ Named(pro, 2, {"Biomass plant"}) = {} => AllowBio(pro) = pro
        /\ Named(tra, 3, {"hvac"}) = {} => AllowTransmission(tra) = tra
        /\ Named(pro, 2, ProcessTargets) = {} => Pro(data) = pro
        /\ Named(tra, 3, {"hvac"}) = {} => Tra(data) = tra

\* C8 (as claimed): where a target of a rule is absent from the dataset, the
\* assignment aimed at it is a no-op: same row keys, same values, also for the
\* 'CO2 limit' global property.
C8_AbsentTargetNoOp ==
    pc = "validate_input" =>
        /\ MaskEditsNoOp
        /\ "CO2 limit" \notin DOMAIN Glo(baseline) => Glo(data) = Glo(baseline)

\* C8 (amended): the assignments through a process or transmission mask are
\* no-ops where the mask selects nothing; the 'CO2 limit' assignment of
\* scenario_co2_2030 raises no error either, but where the row is absent it
\* appends it, with value 183000000 and its other cells NaN, the other rows
\* staying as they were.
C8_MaskNoOpLabelAppends ==
    pc = "validate_input" =>
        /\ MaskEditsNoOp
        /\ (scenarios[1] = "scenario_co2_2030"
            /\ "CO2 limit" \notin DOMAIN Glo(baseline)) =>
              /\ DOMAIN Glo(data) = DOMAIN Glo(baseline) \cup {"CO2 limit"}
              /\ Glo(data)["CO2 limit"]["value"] = CO2Limit2030
              /\ Glo(data)["CO2 limit"]["description"] = NaN
              /\ \A k \in DOMAIN Glo(baseline) : Glo(data)[k] = Glo(baseline)[k]

C8_Witness ==
    /\ Applied("scenario_co2_2030")
    /\ "CO2 limit" \notin DOMAIN Glo(baseline)
    /\ Named(Pro(baseline), 2, ProcessTargets) = {}
    /\ Named(Tra(baseline), 3, {"hvac"}) = {}
    /\ DOMAIN Pro(baseline) # {}
    /\ Pro(data) = Pro(baseline)
    /\ Tra(data) = Tra(baseline)

\* C9 (as claimed): scenario_co2_2030 and scenario_nuclear_free give the same
\* 'process' and 'transmission' tables, and results that differ in nothing but
\* the 'value' cell of the 'CO2 limit' row of 'global_prop'.
C9_DifferOnlyInLimitValue ==
    Applied("scenario_co2_2030") =>
        LET nf == scenario_nuclear_free(baseline)
        IN  /\ Pro(data) = Pro(nf)
            /\ Tra(data) = Tra(nf)
            /\ data["storage"] = nf["storage"]
            /\ DOMAIN Glo(data) = DOMAIN Glo(nf)
            /\ \A k \in DOMAIN Glo(data) \cap DOMAIN Glo(nf) :
                  \A c \in GlobalCols :
                     (k # "CO2 limit" \/ c # "value") => Glo(data)[k][c] = Glo(nf)[k][c]

\* C9 (amended): the two rules give the same 'process' and 'transmission'
\* tables; their results differ in nothing but the 'CO2 limit' row of
\* 'global_prop': in its 'value' cell where the baseline has the row, and by
\* the whole row, which scenario_co2_2030 appends, where it has not.
C9_DifferOnlyInLimitRow ==
    Applied("scenario_co2_2030") =>
        LET nf == scenario_nuclear_free(baseline)
        IN  /\ Pro(data) = Pro(nf)
            /\ Tra(data) = Tra(nf)
            /\ data["storage"] = nf["storage"]
            /\ DOMAIN Glo(data) = DOMAIN Glo(nf) \cup {"CO2 limit"}
            /\ \A k \in DOMAIN Glo(nf) :
                  \A c \in GlobalCols :
                     (k # "CO2 limit" \/ c # "value") => Glo(data)[k][c] = Glo(nf)[k][c]

C9_Witness ==
    /\ Applied("scenario_co2_2030")
    /\ \E k \in Named(Pro(baseline), 2, {"Wind plant"}) :
          Pro(baseline)[k]["cap-up"] = 10
    /\ \E k \in Named(Pro(baseline), 2, {"Biomass plant"}) :
          Pro(baseline)[k]["cap-up"] = 10 /\ Pro(data)[k]["cap-up"] = 12
    /\ Pro(data) = Pro(scenario_nuclear_free(baseline))
    /\ Glo(data) # Glo(scenario_nuclear_free(baseline))

\* 0 <= cap-lo <= inst-cap <= cap-up on every row
Consistent(rows) ==
    \A k \in DOMAIN rows :
        /\ 0 <= rows[k]["cap-lo"]
        /\ rows[k]["cap-lo"] <= rows[k]["inst-cap"]
        /\ rows[k]["inst-cap"] <= rows[k]["cap-up"]

\* C10: a baseline whose 'process' and 'transmission' rows are all ordered
\* 0 <= cap-lo <= inst-cap <= cap-up is still ordered so after any of the
\* three rules.
C10_OrderPreserved ==
    (pc = "validate_input" /\ Consistent(Pro(baseline)) /\ Consistent(Tra(baseline)))
        => Consistent(Pro(data)) /\ Consistent(Tra(data))

C10_Witness ==
    /\ Applied("scenario_nuclear_free")
    /\ Consistent(Pro(baseline)) /\ Consistent(Tra(baseline))
    /\ \E k \in Named(Pro(baseline), 2, {"CC plant"}) :
          /\ Pro(baseline)[k]["inst-cap"] = 10
          /\ Pro(baseline)[k]["cap-up"] = 10
          /\ Pro(data)[k]["cap-up"] = 15
    /\ \E k \in Named(Pro(baseline), 2, {"Nuclear plant"}) :
          Pro(baseline)[k]["cap-lo"] = 10

====
